---- MODULE Spec2Model ----
(***************************************************************************)
(* Sentiment-analysis service: the Flask routes of app.py (/predict,       *)
(* /decision, /test-email, /health) driving the single shared              *)
(* SentimentPredictor of app/predict.py.                                   *)
(*                                                                         *)
(* Every request is served by a handler thread.  A handler is cut into     *)
(* steps with one access to the shared predictor each, so that the         *)
(* interleavings of a threaded server are behaviours of Spec; SeqSpec is   *)
(* the same program with a single handler thread (one request at a time).  *)
(* RouteSpec, CallSpec, LongSpec and TimedSpec are single-threaded runs    *)
(* with other requests: every body of the two POST routes, direct calls of *)
(* predict with a true_label, long runs of rejects, and a moving clock.    *)
(* MonitorSpec adds the AzureMonitor of app/azure_monitor.py, which the    *)
(* service itself never constructs.                                        *)
(*                                                                         *)
(* A text is represented by its length, a uuid by a fresh integer, the     *)
(* wall clock by `now` (seconds).  A request is short against the clock's  *)
(* granularity: the clock advances between requests only.                  *)
(***************************************************************************)
EXTENDS Integers, Sequences, FiniteSets, TLC

\* ---------------------------------------------------------------- bounds
NThreads == 2
MaxIds == 1
MaxRejects == 6
TickStep == 1800
MaxTime == 3600
LongText == 101
MaxCalls == 3
MaxLogs == 4
WindowStep == 150
MaxMonitorTime == 300
MonitorDecisions == 3
MaxHistory == 101

\* ------------------------------------------------------ program constants
AlertThreshold == 3
RetentionSeconds == 3600
StoredTextMax == 100
PreviewMax == 50
EllipsisLen == 3
TestEmailFailures == 3
HistoryCapacity == 100
RejectionWindow == 300
MonitorThreshold == 3

Threads == 1 .. NThreads
SeqThreads == {1}
TextLens == {0, LongText}
Decisions == {"accept", "reject"}
InvalidDecisions == {"maybe"}
\* the values of true_label: the classes of the model
Labels == {0, 1}
\* prediction ids a client may send: every id the service can hand out and
\* one that is never handed out
ClientIds == 1 .. (MaxIds + 1)

VARIABLES
    consecutive_failures,   \* SentimentPredictor.consecutive_failures
    rejection_history,      \* SentimentPredictor.rejection_history
    recent_predictions,     \* SentimentPredictor.recent_predictions
    email_from,             \* TRUE iff EMAIL_FROM is set
    email_to,               \* TRUE iff EMAIL_TO is set
    email_password,         \* TRUE iff EMAIL_PASSWORD is set
    now,                    \* time.time() / datetime.now()
    next_uuid,              \* the next value of uuid.uuid4()
    pc,                     \* pc[t]: where handler thread t stands
    req,                    \* req[t]: the request thread t serves / served last
    loc,                    \* loc[t]: the handler's local variables
    reply,                  \* the reply the last step sent to its client, if any
    only_rejects,           \* history: no accept recorded and no /test-email served
    rejects,                \* history: while only_rejects, the rejects recorded
    alerts,                 \* history: while only_rejects, the alerts of handle_decision
    enabled,                \* AzureMonitor.enabled
    monitor_rejection_history, \* AzureMonitor.rejection_history (a deque of timestamps)
    wrong_calls             \* history: the latest predict calls in a row whose true_label
                            \*          was not the predicted label

shared == <<consecutive_failures, rejection_history, recent_predictions>>
env == <<email_from, email_to, email_password>>
monitor == <<enabled, monitor_rejection_history>>
ghost == <<only_rejects, rejects, alerts, wrong_calls>>
vars == <<consecutive_failures, rejection_history, recent_predictions,
          email_from, email_to, email_password, now, next_uuid,
          pc, req, loc, reply, only_rejects, rejects, alerts, wrong_calls,
          enabled, monitor_rejection_history>>

\* ------------------------------------------------------------ requests
NullText == [type |-> "null", len |-> 0]
Str(n) == [type |-> "str", len |-> n]
TextValues == {NullText} \cup {Str(n) : n \in TextLens}

NoRequest == [kind |-> "none"]

\* request.get_json() of POST /predict: fields = {} stands for a falsy body
PredictData ==
    {[fields |-> {}, text |-> NullText]}
    \cup {[fields |-> {"other"}, text |-> NullText]}
    \cup {[fields |-> {"text"}, text |-> v] : v \in TextValues}

\* a text that has a length and is no string (a JSON array or object)
ListText == [type |-> "list", len |-> 1]

\* the bodies of PredictData, and a body whose text is a JSON array
AnyPredictData == PredictData \cup {[fields |-> {"text"}, text |-> ListText]}

\* request.get_json() of POST /decision
DecisionData ==
    {[fields |-> {}, prediction_id |-> 0, decision |-> ""]}
    \cup {[fields |-> {"prediction_id"}, prediction_id |-> 1, decision |-> ""]}
    \cup {[fields |-> {"decision"}, prediction_id |-> 0, decision |-> "reject"]}
    \cup {[fields |-> {"prediction_id", "decision"}, prediction_id |-> i, decision |-> d]
            : i \in ClientIds, d \in Decisions \cup InvalidDecisions}

\* the locals of a handler; alert and before are history: the outcome of the
\* send_alert_email call the request made ("none" without one) and the value
\* of consecutive_failures when the request came in
NoLocals == [failures |-> 0, prediction_id |-> 0, text |-> 0, snapshot |-> <<>>,
             alert |-> "none", before |-> 0]
NoReply == [thread |-> 0, request |-> NoRequest, code |-> 0, body |-> <<>>,
            alert |-> "none", before |-> 0]

\* ------------------------------------------------------------- helpers
Idle(t) == pc[t] = "idle"
Quiescent == \A t \in Threads : Idle(t)

\* the locals of a handler that starts
Entered == [NoLocals EXCEPT !.before = consecutive_failures]

\* jsonify(...) and the status code of the route's return statement: the
\* handler of request r, with the locals l, answers and is free again
Reply(t, r, code, body, l) ==
    /\ pc' = [pc EXCEPT ![t] = "idle"]
    /\ req' = [req EXCEPT ![t] = NoRequest]
    /\ loc' = [loc EXCEPT ![t] = NoLocals]
    /\ reply' = [thread |-> t, request |-> r, code |-> code, body |-> body,
                 alert |-> l.alert, before |-> l.before]

\* the handler goes on at label, with the locals l
Goto(t, label, l) ==
    /\ pc' = [pc EXCEPT ![t] = label]
    /\ loc' = [loc EXCEPT ![t] = l]
    /\ reply' = NoReply

Metadata == [processing_time_ms |-> 0, timestamp |-> now]

\* the except clause of a route: the 500 reply carrying str(e)
ServerError(msg, exc) == [error |-> msg, details |-> exc]

\* the classes of the exceptions raised while a request is handled
ExceptionClasses ==
    {"TypeError", "AttributeError", "KeyError", "SMTPAuthenticationError",
     "SMTPException", "Exception"}

\* a route whose except clause names the errors of its own code only
RouteCatches_Own(exc) == exc \in {"TypeError", "KeyError"}

\* except Exception as e, of the routes /predict and /decision
RouteCatches(exc) == exc \in ExceptionClasses

\* an exception raised while the route handles request r: the except clause
\* of the route answers it; one it does not catch leaves the route and is
\* answered by the application's handler of internal errors
Raise(t, r, msg, exc, l) ==
    IF RouteCatches(exc)
    THEN Reply(t, r, 500, ServerError(msg, exc), l)
    ELSE Reply(t, r, 500, [error |-> "Erreur interne du serveur", escaped |-> exc], l)


\* ---------------------------------------------------- SentimentPredictor
\* text[:100] + "..." if len(text) > 100 else text
Truncate(n) == IF n > StoredTextMax THEN StoredTextMax + EllipsisLen ELSE n

\* prediction_data["text"][:50] + "..."
TextPreview(n) == (IF n > PreviewMax THEN PreviewMax ELSE n) + EllipsisLen

\* self.model.predict_proba(processed)[0], in thousandths: the pickled model
\* is a fixed function of the text
PredictProba(n) == IF n = 0 THEN <<500, 500>> ELSE <<200, 800>>

\* self.model.predict(processed)[0]
PredictLabel(n) == IF PredictProba(n)[2] > PredictProba(n)[1] THEN 1 ELSE 0

PredictionEntry(n) ==
    [text |-> Truncate(n), prediction |-> PredictLabel(n),
     probabilities |-> PredictProba(n), timestamp |-> now,
     user_decision |-> "none"]

\* CleanOld with the comparison turned round
CleanOld_Inverted(preds, current_time) ==
    [p \in {q \in DOMAIN preds : current_time - preds[q].timestamp >= RetentionSeconds}
        |-> preds[p]]

\* the dict comprehension that drops the predictions older than one hour
CleanOld(preds, current_time) ==
    [p \in {q \in DOMAIN preds : current_time - preds[q].timestamp < RetentionSeconds}
        |-> preds[p]]

RejectionEntry(id, n) ==
    [prediction_id |-> id, timestamp |-> now, text_preview |-> TextPreview(n)]

ConfigComplete == email_from /\ email_to /\ email_password

\* what a delivery attempt can end in: delivered, or an exception of the
\* named class raised by smtplib.SMTP / starttls / login / sendmail
SmtpOutcomes == {"sent", "SMTPAuthenticationError", "SMTPException", "Exception"}

\* the except clauses without the last one, except Exception
Caught_SmtpOnly(exc) == exc \in {"SMTPAuthenticationError", "SMTPException"}

\* the except clauses of send_alert_email
Caught(exc) == exc \in {"SMTPAuthenticationError", "SMTPException", "Exception"}

\* send_alert_email emptying the history whatever the delivery ended in
SendAlertEmail_AlwaysClears(outcome) ==
    IF ~ConfigComplete
    THEN [outcome |-> "skipped", raised |-> FALSE, rejection_history |-> <<>>]
    ELSE [outcome |-> outcome, raised |-> (outcome # "sent" /\ ~Caught(outcome)),
          rejection_history |-> <<>>]

\* send_alert_email(is_rejection=True): what the call leaves behind
SendAlertEmail(outcome) ==
    IF ~ConfigComplete
    THEN [outcome |-> "skipped", raised |-> FALSE, rejection_history |-> rejection_history]
    ELSE IF outcome = "sent"
    THEN [outcome |-> outcome, raised |-> FALSE, rejection_history |-> <<>>]
    ELSE [outcome |-> outcome, raised |-> ~Caught(outcome),
          rejection_history |-> rejection_history]

\* --------------------------------------------------------- POST /predict
PredictRequests == {[kind |-> "predict", data |-> d] : d \in PredictData}

\* the validation of the route; len(text) of a null text raises TypeError
PredictRequest(t, r) ==
    /\ Idle(t)
    /\ ("text" \in r.data.fields /\ r.data.text.type = "str")
          => next_uuid + Cardinality({u \in Threads : pc[u] = "predict_store"}) <= MaxIds
    /\ IF r.data.fields = {}
       THEN Reply(t, r, 400, [error |-> "Aucune donnee JSON fournie"], Entered)
       ELSE IF "text" \notin r.data.fields
       THEN Reply(t, r, 400, [error |-> "Champ text manquant"], Entered)
       ELSE IF r.data.text.type = "null"
       THEN Raise(t, r, "traitement de la demande", "TypeError", Entered)
       ELSE /\ Goto(t, "predict_store", [Entered EXCEPT !.text = r.data.text.len])
            /\ req' = [req EXCEPT ![t] = r]
    /\ UNCHANGED <<shared, env, monitor, now, next_uuid, ghost>>

\* predictor.predict(text, true_label=L) called on the predictor itself, as
\* the tests of test_predict.py call it
PredictCalls ==
    {[kind |-> "predict_call", data |-> [text |-> Str(n), true_label |-> l]]
        : n \in TextLens, l \in Labels}

PredictCall(t, r) ==
    /\ Idle(t)
    /\ next_uuid <= MaxCalls
    /\ wrong_calls' = IF r.data.true_label # PredictLabel(r.data.text.len)
                      THEN wrong_calls + 1 ELSE 0
    /\ Goto(t, "predict_store", [Entered EXCEPT !.text = r.data.text.len])
    /\ req' = [req EXCEPT ![t] = r]
    /\ UNCHANGED <<shared, env, monitor, now, next_uuid, only_rejects, rejects, alerts>>

\* predict, lines 66-79: score the text and store it under a fresh uuid; the
\* vectorizer raises on a text that is no string
PredictStore(t) ==
    /\ pc[t] = "predict_store"
    /\ IF req[t].data.text.type # "str"
       THEN /\ Raise(t, req[t], "traitement de la demande", "AttributeError", loc[t])
            /\ UNCHANGED <<recent_predictions, next_uuid>>
       ELSE /\ recent_predictions' =
                  [p \in DOMAIN recent_predictions \cup {next_uuid} |->
                      IF p = next_uuid THEN PredictionEntry(loc[t].text)
                      ELSE recent_predictions[p]]
            /\ next_uuid' = next_uuid + 1
            /\ Goto(t, "predict_filter", [loc[t] EXCEPT !.prediction_id = next_uuid])
            /\ UNCHANGED req
    /\ UNCHANGED <<consecutive_failures, rejection_history, env, monitor, now, ghost>>

\* predict, lines 82-86: the right-hand side of the clean-up
PredictFilter(t) ==
    /\ pc[t] = "predict_filter"
    /\ Goto(t, "predict_assign",
            [loc[t] EXCEPT !.snapshot = CleanOld(recent_predictions, now)])
    /\ UNCHANGED <<shared, env, monitor, now, next_uuid, req, ghost>>

\* the result with the score of one class under both names
PredictResult_OneClass(text, id) ==
    [negative |-> PredictProba(text)[2], positive |-> PredictProba(text)[2],
     prediction_id |-> id, metadata |-> Metadata]

\* predict, lines 88-94, and the body of the route's 200 reply
PredictResult(text, id) ==
    [negative |-> PredictProba(text)[1], positive |-> PredictProba(text)[2],
     prediction_id |-> id, metadata |-> Metadata]

\* predict, line 83: the assignment of the clean-up; then the reply
PredictAssign(t) ==
    /\ pc[t] = "predict_assign"
    /\ recent_predictions' = loc[t].snapshot
    /\ Reply(t, req[t], IF req[t].kind = "predict" THEN 200 ELSE 0,
             PredictResult(loc[t].text, loc[t].prediction_id), loc[t])
    /\ UNCHANGED <<consecutive_failures, rejection_history, env, monitor, now, next_uuid, ghost>>

\* -------------------------------------------------------- POST /decision
DecisionRequests == {[kind |-> "decision", data |-> d] : d \in DecisionData}

InFlightRejects ==
    Cardinality({u \in Threads : /\ pc[u] \in {"decision_check", "decision_get",
                                                "decision_load", "decision_store"}
                                 /\ req[u].data.decision = "reject"})

\* the values of the counter the handlers work with
FailuresSeen == {consecutive_failures} \cup {loc[u].failures : u \in Threads}

\* the route without its check of the decision value
ValidDecision_Any(decision) == TRUE

\* app.py line 115
ValidDecision(decision) == decision \in {"accept", "reject"}

\* fewer than n rejects so far, in the history and in every counter value
RejectsBelow(n) ==
    /\ rejects + InFlightRejects < n
    /\ Len(rejection_history) + InFlightRejects < n
    /\ \A f \in FailuresSeen : f + InFlightRejects < n

\* the validation of the route, app.py lines 96-120
DecisionRoute(t, r) ==
    /\ Idle(t)
    /\ IF r.data.fields = {}
       THEN Reply(t, r, 400, [error |-> "Aucune donnee JSON fournie"], Entered)
       ELSE IF "prediction_id" \notin r.data.fields
       THEN Reply(t, r, 400, [error |-> "Champ prediction_id manquant"], Entered)
       ELSE IF "decision" \notin r.data.fields
       THEN Reply(t, r, 400, [error |-> "Champ decision manquant"], Entered)
       ELSE IF ~ValidDecision(r.data.decision)
       THEN Reply(t, r, 400, [error |-> "Valeur de decision invalide"], Entered)
       ELSE /\ Goto(t, "decision_check",
                    [Entered EXCEPT !.prediction_id = r.data.prediction_id])
            /\ req' = [req EXCEPT ![t] = r]
    /\ UNCHANGED <<shared, env, monitor, now, next_uuid, ghost>>

\* POST /decision, taken while fewer than MaxRejects rejects were made
DecisionRequest(t, r) ==
    /\ (r.data.fields = {"prediction_id", "decision"} /\ r.data.decision = "reject")
          => RejectsBelow(MaxRejects)
    /\ DecisionRoute(t, r)

\* POST /decision, taken while fewer than MaxHistory rejects were made
LongDecisionRequest(t, r) ==
    /\ (r.data.fields = {"prediction_id", "decision"} /\ r.data.decision = "reject")
          => RejectsBelow(MaxHistory)
    /\ DecisionRoute(t, r)

\* handle_decision, lines 102-104: an unknown id is answered, not raised
NotFoundResult ==
    [status |-> "error", message |-> "Prediction ID not found", metadata |-> Metadata]

\* handle_decision without its membership test
DecisionCheck_NoTest(t) ==
    /\ pc[t] = "decision_check"
    /\ Goto(t, "decision_get", loc[t]) /\ UNCHANGED req
    /\ UNCHANGED <<shared, env, monitor, now, next_uuid, ghost>>

\* handle_decision, lines 102-104: the membership test
DecisionCheck(t) ==
    /\ pc[t] = "decision_check"
    /\ IF loc[t].prediction_id \notin DOMAIN recent_predictions
       THEN Reply(t, req[t], 200, NotFoundResult, loc[t])
       ELSE Goto(t, "decision_get", loc[t]) /\ UNCHANGED req
    /\ UNCHANGED <<shared, env, monitor, now, next_uuid, ghost>>

\* handle_decision, lines 106-107; the subscript raises KeyError when the
\* entry was dropped since the membership test
DecisionGet(t) ==
    /\ pc[t] = "decision_get"
    /\ LET id == loc[t].prediction_id
           decision == req[t].data.decision
       IN  IF id \notin DOMAIN recent_predictions
           THEN /\ Raise(t, req[t], "traitement de la decision", "KeyError", loc[t])
                /\ UNCHANGED recent_predictions
           ELSE /\ recent_predictions' =
                      [recent_predictions EXCEPT ![id].user_decision = decision]
                /\ Goto(t, IF decision = "reject" THEN "decision_load"
                                                  ELSE "decision_accept",
                        [loc[t] EXCEPT !.text = recent_predictions[id].text])
                /\ UNCHANGED req
    /\ UNCHANGED <<consecutive_failures, rejection_history, env, monitor, now, next_uuid, ghost>>

\* handle_decision, line 110: the read of self.consecutive_failures += 1
DecisionLoad(t) ==
    /\ pc[t] = "decision_load"
    /\ Goto(t, "decision_store", [loc[t] EXCEPT !.failures = consecutive_failures])
    /\ UNCHANGED <<shared, env, monitor, now, next_uuid, req, ghost>>

\* handle_decision, line 110: the write of self.consecutive_failures += 1
DecisionStore(t) ==
    /\ pc[t] = "decision_store"
    /\ consecutive_failures' = loc[t].failures + 1
    /\ rejects' = IF only_rejects THEN rejects + 1 ELSE rejects
    /\ Goto(t, "decision_append", loc[t])
    /\ UNCHANGED <<rejection_history, recent_predictions, env, monitor, now, next_uuid,
                   req, only_rejects, alerts, wrong_calls>>

\* handle_decision, lines 111-115
DecisionAppend(t) ==
    /\ pc[t] = "decision_append"
    /\ rejection_history' =
          Append(rejection_history, RejectionEntry(loc[t].prediction_id, loc[t].text))
    /\ Goto(t, "decision_test", loc[t])
    /\ UNCHANGED <<consecutive_failures, recent_predictions, env, monitor, now, next_uuid,
                   req, ghost>>

\* the threshold test with > for >=
ThresholdReached_Above(failures) == failures > AlertThreshold

\* handle_decision, line 120
ThresholdReached(failures) == failures >= AlertThreshold

DecisionTest(t) ==
    /\ pc[t] = "decision_test"
    /\ Goto(t, IF ThresholdReached(consecutive_failures) THEN "decision_alert"
                                                         ELSE "decision_return",
            loc[t])
    /\ UNCHANGED <<shared, env, monitor, now, next_uuid, req, ghost>>

\* handle_decision, line 122: send_alert_email(is_rejection=True); an
\* exception it lets through leaves handle_decision and reaches the route's
\* except clause
DecisionAlert(t) ==
    /\ pc[t] = "decision_alert"
    /\ \E outcome \in SmtpOutcomes :
          LET r == SendAlertEmail(outcome)
          IN  /\ (~ConfigComplete) => outcome = "sent"
              /\ rejection_history' = r.rejection_history
              /\ IF r.raised
                 THEN /\ Raise(t, req[t], "traitement de la decision", outcome,
                               [loc[t] EXCEPT !.alert = r.outcome])
                 ELSE /\ Goto(t, "decision_reset", [loc[t] EXCEPT !.alert = r.outcome])
                      /\ UNCHANGED req
    /\ alerts' = IF only_rejects THEN alerts + 1 ELSE alerts
    /\ UNCHANGED <<consecutive_failures, recent_predictions, env, monitor, now, next_uuid,
                   only_rejects, rejects, wrong_calls>>

\* the reset made only when the alert was delivered
DecisionReset_IfSent(t) ==
    /\ pc[t] = "decision_reset"
    /\ consecutive_failures' =
          IF loc[t].alert = "sent" THEN 0 ELSE consecutive_failures
    /\ Goto(t, "decision_return", loc[t])
    /\ UNCHANGED <<rejection_history, recent_predictions, env, monitor, now, next_uuid,
                   req, ghost>>

\* handle_decision, line 124
DecisionReset(t) ==
    /\ pc[t] = "decision_reset"
    /\ consecutive_failures' = 0
    /\ Goto(t, "decision_return", loc[t])
    /\ UNCHANGED <<rejection_history, recent_predictions, env, monitor, now, next_uuid,
                   req, ghost>>

\* the accept branch without its assignment
DecisionAccept_KeepCounter(t) ==
    /\ pc[t] = "decision_accept"
    /\ only_rejects' = FALSE
    /\ rejects' = 0
    /\ alerts' = 0
    /\ Goto(t, "decision_return", loc[t])
    /\ UNCHANGED <<shared, env, monitor, now, next_uuid, req, wrong_calls>>

\* handle_decision, line 126
DecisionAccept(t) ==
    /\ pc[t] = "decision_accept"
    /\ consecutive_failures' = 0
    /\ only_rejects' = FALSE
    /\ rejects' = 0
    /\ alerts' = 0
    /\ Goto(t, "decision_return", loc[t])
    /\ UNCHANGED <<rejection_history, recent_predictions, env, monitor, now, next_uuid, req,
                   wrong_calls>>

\* the result with the status GET /health answers
DecisionResult_Ok(decision, failures) ==
    [status |-> "ok", message |-> <<"Decision", decision, "recorded">>,
     consecutive_failures |-> failures, metadata |-> Metadata]

\* handle_decision, lines 129-133, and the body of the route's 200 reply
DecisionResult(decision, failures) ==
    [status |-> "success", message |-> <<"Decision", decision, "recorded">>,
     consecutive_failures |-> failures, metadata |-> Metadata]

DecisionReturn(t) ==
    /\ pc[t] = "decision_return"
    /\ Reply(t, req[t], 200,
             DecisionResult(req[t].data.decision, consecutive_failures), loc[t])
    /\ UNCHANGED <<shared, env, monitor, now, next_uuid, ghost>>

\* ------------------------------------------------------- GET /test-email
TestEmailRequests == {[kind |-> "test_email"]}

\* test_email, line 170
TestEmailRequest(t, r) ==
    /\ Idle(t)
    /\ consecutive_failures' = TestEmailFailures
    /\ only_rejects' = FALSE
    /\ rejects' = 0
    /\ alerts' = 0
    /\ Goto(t, "test_email_send", Entered)
    /\ req' = [req EXCEPT ![t] = r]
    /\ UNCHANGED <<rejection_history, recent_predictions, env, monitor, now, next_uuid,
                   wrong_calls>>

\* test_email, lines 171-191
TestEmailSend(t) ==
    /\ pc[t] = "test_email_send"
    /\ \E outcome \in SmtpOutcomes :
          LET r == SendAlertEmail(outcome)
          IN  /\ (~ConfigComplete) => outcome = "sent"
              /\ rejection_history' = r.rejection_history
              /\ IF r.raised
                 THEN Reply(t, req[t], 500, [status |-> "error", error |-> outcome],
                            [loc[t] EXCEPT !.alert = r.outcome])
                 ELSE Reply(t, req[t], 200,
                            [status |-> "success",
                             message |-> "Test email sent (check logs)"],
                            [loc[t] EXCEPT !.alert = r.outcome])
    /\ UNCHANGED <<consecutive_failures, recent_predictions, env, monitor, now, next_uuid, ghost>>

\* ----------------------------------------------------------- GET /health
HealthRequests == {[kind |-> "health"]}

HealthRequest(t, r) ==
    /\ Idle(t)
    /\ Reply(t, r, 200, [status |-> "ok"], Entered)
    /\ UNCHANGED <<shared, env, monitor, now, next_uuid, ghost>>

\* ---------------------------------------------------------- AzureMonitor
\* what AzureMonitor.__init__ finds: AZURE_MONITOR_ENABLED, the imports, a
\* connection string, and whether _initialize_azure_monitor ran through
MonitorConfigs ==
    [by_config : BOOLEAN, imports : BOOLEAN, connection_string : BOOLEAN,
     initialized : BOOLEAN]

\* AzureMonitor.__init__: self.enabled
MonitorEnabled(cfg) ==
    cfg.by_config /\ cfg.imports /\ cfg.connection_string /\ cfg.initialized

\* what the telemetry calls of a log_* method end in: they return, or the
\* metric call raises, or a call on the span raises
TelemetryOutcomes == {"ok", "metric_raises", "span_raises"}

LogRequests ==
    {[kind |-> k] : k \in {"log_prediction", "log_rejection", "log_performance",
                           "log_error"}}

\* deque(maxlen=100).append
DequeAppend(h, x) ==
    IF Len(h) >= HistoryCapacity THEN Append(Tail(h), x) ELSE Append(h, x)

\* _check_rejection_threshold: the timestamps of the last five minutes
RecentRejections(h, current) ==
    SelectSeq(h, LAMBDA timestamp : timestamp > current - RejectionWindow)

\* the threshold test over the whole history
CheckRejectionThreshold_NoWindow(h, current) ==
    /\ enabled
    /\ Len(h) >= MonitorThreshold

\* _check_rejection_threshold: whether _trigger_alert is called
CheckRejectionThreshold(h, current) ==
    /\ enabled
    /\ Len(h) >= MonitorThreshold
    /\ Len(RecentRejections(h, current)) >= MonitorThreshold

\* what a log_* call answers: it returns None; telemetry and alert are
\* history, what its telemetry calls ended in and whether it called
\* _trigger_alert
Logged(t, r, telemetry, alert) ==
    Reply(t, r, 0, [telemetry |-> telemetry], [Entered EXCEPT !.alert = alert])

\* log_rejection without its test of self.enabled
LogRejection_Unguarded(t, r) ==
    /\ Idle(t)
    /\ r.kind = "log_rejection"
    /\ Len(monitor_rejection_history) < MaxLogs
    /\ \E o \in TelemetryOutcomes :
          LET h == IF o = "metric_raises" THEN monitor_rejection_history
                   ELSE DequeAppend(monitor_rejection_history, now)
          IN  /\ monitor_rejection_history' = h
              /\ Logged(t, r, o,
                        IF o = "ok" /\ CheckRejectionThreshold(h, now)
                        THEN "high_rejection_rate" ELSE "none")
    /\ UNCHANGED <<shared, env, enabled, now, next_uuid, ghost>>

\* log_rejection
LogRejection(t, r) ==
    /\ Idle(t)
    /\ r.kind = "log_rejection"
    /\ enabled => Len(monitor_rejection_history) < MaxLogs
    /\ IF ~enabled
       THEN /\ Logged(t, r, "none", "none")
            /\ UNCHANGED monitor_rejection_history
       ELSE \E o \in TelemetryOutcomes :
               LET h == IF o = "metric_raises" THEN monitor_rejection_history
                        ELSE DequeAppend(monitor_rejection_history, now)
               IN  /\ monitor_rejection_history' = h
                   /\ Logged(t, r, o,
                             IF o = "ok" /\ CheckRejectionThreshold(h, now)
                             THEN "high_rejection_rate" ELSE "none")
    /\ UNCHANGED <<shared, env, enabled, now, next_uuid, ghost>>

\* log_prediction, log_performance, log_error: telemetry only
LogOnly(t, r) ==
    /\ Idle(t)
    /\ IF ~enabled
       THEN Logged(t, r, "none", "none")
       ELSE \E o \in TelemetryOutcomes : Logged(t, r, o, "none")
    /\ UNCHANGED <<shared, env, monitor, now, next_uuid, ghost>>

LogPrediction(t, r) == r.kind = "log_prediction" /\ LogOnly(t, r)

LogPerformance(t, r) == r.kind = "log_performance" /\ LogOnly(t, r)

LogError(t, r) == r.kind = "log_error" /\ LogOnly(t, r)

\* the clock of the monitor's five-minute window
MonitorTick ==
    /\ Quiescent
    /\ now + WindowStep <= MaxMonitorTime
    /\ now' = now + WindowStep
    /\ reply' = NoReply
    /\ UNCHANGED <<shared, env, monitor, next_uuid, pc, req, loc, ghost>>

\* ------------------------------------------------------------- the clock
Tick ==
    /\ Quiescent
    /\ now + TickStep <= MaxTime
    /\ now' = now + TickStep
    /\ reply' = NoReply
    /\ UNCHANGED <<shared, env, monitor, next_uuid, pc, req, loc, ghost>>

\* ------------------------------------------------------- specifications
\* the environments the service is started in: alerting fully configured,
\* or EMAIL_PASSWORD missing
Environments == {<<TRUE, TRUE, TRUE>>, <<TRUE, TRUE, FALSE>>}

\* SentimentPredictor.__init__, and the handlers at rest
PredictorInit ==
    /\ consecutive_failures = 0
    /\ rejection_history = <<>>
    /\ recent_predictions = <<>>
    /\ \E e \in Environments :
          /\ email_from = e[1]
          /\ email_to = e[2]
          /\ email_password = e[3]
    /\ now = 0
    /\ next_uuid = 1
    /\ pc = [t \in Threads |-> "idle"]
    /\ req = [t \in Threads |-> NoRequest]
    /\ loc = [t \in Threads |-> NoLocals]
    /\ reply = NoReply
    /\ only_rejects = TRUE
    /\ rejects = 0
    /\ alerts = 0
    /\ wrong_calls = 0

\* the service of app.py constructs no AzureMonitor: none is there to log to
Init ==
    /\ PredictorInit
    /\ enabled = FALSE
    /\ monitor_rejection_history = <<>>

PredictSteps(t) ==
    \/ PredictStore(t)
    \/ PredictFilter(t)
    \/ PredictAssign(t)

DecisionSteps(t) ==
    \/ DecisionCheck(t)
    \/ DecisionGet(t)
    \/ DecisionLoad(t)
    \/ DecisionStore(t)
    \/ DecisionAppend(t)
    \/ DecisionTest(t)
    \/ DecisionAlert(t)
    \/ DecisionReset(t)
    \/ DecisionAccept(t)
    \/ DecisionReturn(t)

\* one request at a time: a single handler thread serves every route
SeqNext ==
    \/ \E t \in SeqThreads :
          \/ \E r \in PredictRequests : PredictRequest(t, r)
          \/ PredictSteps(t)
          \/ \E r \in DecisionRequests : DecisionRequest(t, r)
          \/ DecisionSteps(t)
          \/ \E r \in TestEmailRequests : TestEmailRequest(t, r)
          \/ TestEmailSend(t)
          \/ \E r \in HealthRequests : HealthRequest(t, r)

SeqSpec == Init /\ [][SeqNext]_vars

\* a threaded server: NThreads handlers take well-formed /predict and
\* /decision requests and run on the shared predictor in any interleaving
WellFormedPredicts ==
    {r \in PredictRequests : r.data.fields = {"text"} /\ r.data.text = Str(0)}

WellFormedDecisions ==
    {r \in DecisionRequests : /\ r.data.fields = {"prediction_id", "decision"}
                              /\ r.data.decision \in Decisions}

Next ==
    \E t \in Threads :
        \/ \E r \in WellFormedPredicts : PredictRequest(t, r)
        \/ PredictSteps(t)
        \/ \E r \in WellFormedDecisions : DecisionRequest(t, r)
        \/ DecisionSteps(t)

Spec == Init /\ [][Next]_vars

\* one call at a time on the predictor: predict with a true_label, and the
\* decisions of the clients
CallNext ==
    \E t \in SeqThreads :
        \/ \E r \in PredictCalls : PredictCall(t, r)
        \/ PredictSteps(t)
        \/ \E r \in WellFormedDecisions : DecisionRequest(t, r)
        \/ DecisionSteps(t)

CallSpec == Init /\ [][CallNext]_vars

\* an AzureMonitor beside the predictor: log_* calls and decisions, one at a
\* time, the clock advancing between them; decisions are taken until
\* MonitorDecisions rejects or an accept are recorded
MonitorInit ==
    /\ PredictorInit
    /\ \E cfg \in MonitorConfigs : enabled = MonitorEnabled(cfg)
    /\ monitor_rejection_history = <<>>

MonitorNext ==
    \/ \E t \in SeqThreads :
          \/ \E r \in LogRequests :
                \/ LogPrediction(t, r)
                \/ LogRejection(t, r)
                \/ LogPerformance(t, r)
                \/ LogError(t, r)
          \/ \E r \in WellFormedPredicts : PredictRequest(t, r)
          \/ PredictSteps(t)
          \/ \E r \in WellFormedDecisions :
                /\ only_rejects /\ rejects < MonitorDecisions
                /\ DecisionRequest(t, r)
          \/ DecisionSteps(t)
    \/ MonitorTick

MonitorSpec == MonitorInit /\ [][MonitorNext]_vars

\* one request at a time, well-formed, over a long run of rejects
LongNext ==
    \E t \in SeqThreads :
        \/ \E r \in WellFormedPredicts : PredictRequest(t, r)
        \/ PredictSteps(t)
        \/ \E r \in WellFormedDecisions : LongDecisionRequest(t, r)
        \/ DecisionSteps(t)

LongSpec == Init /\ [][LongNext]_vars

\* one request at a time to /predict and /decision, with every body
AnyPredictRequests == {[kind |-> "predict", data |-> d] : d \in AnyPredictData}

RouteNext ==
    \E t \in SeqThreads :
        \/ \E r \in AnyPredictRequests : PredictRequest(t, r)
        \/ PredictSteps(t)
        \/ \E r \in DecisionRequests : DecisionRequest(t, r)
        \/ DecisionSteps(t)

RouteSpec == Init /\ [][RouteNext]_vars

\* one request at a time, the clock advancing between the requests
TimedNext == SeqNext \/ Tick

TimedSpec == Init /\ [][TimedNext]_vars

\* ------------------------------------------------------------ properties
\* what the last step answered
DecisionReply == reply.request.kind = "decision"

WellFormedDecision(r) ==
    /\ r.kind = "decision"
    /\ r.data.fields = {"prediction_id", "decision"}
    /\ r.data.decision \in {"accept", "reject"}

InvalidDecision(r) ==
    /\ r.kind = "decision"
    /\ r.data.fields = {"prediction_id", "decision"}
    /\ r.data.decision \notin {"accept", "reject"}

\* the last step answered a decision d that handle_decision recorded
Recorded(d) ==
    /\ WellFormedDecision(reply.request)
    /\ reply.request.data.decision = d
    /\ reply.code = 200
    /\ reply.body.status = "success"

\* the last step answered a decision for which send_alert_email was called
AlertingDecision == DecisionReply /\ reply.alert # "none"

\* C1: one request at a time and starting from a counter of 0, as long as
\* only rejects were recorded: between requests the alerts sent are one per
\* three recorded rejects and the counter is the number of rejects modulo 3,
\* and a reject is answered after an alert exactly when it is the 3rd, 6th...
C1_ThirdRejectAlerts ==
    only_rejects =>
        /\ Quiescent => /\ alerts = rejects \div 3
                        /\ consecutive_failures = rejects % 3
        /\ Recorded("reject") => ((reply.alert # "none") <=> (rejects % 3 = 0))

C1_Witness ==
    /\ only_rejects /\ Quiescent
    /\ rejects = 6 /\ alerts = 2 /\ consecutive_failures = 0
    /\ Recorded("reject") /\ reply.alert # "none" /\ reply.before = 2

\* C2: one request at a time, a recorded accept leaves the counter at 0,
\* reports 0, and no alert was sent for it, whatever the counter was before
C2_AcceptResets ==
    Recorded("accept") =>
        /\ consecutive_failures = 0
        /\ reply.body.consecutive_failures = 0
        /\ reply.alert = "none"

C2_Witness ==
    /\ Recorded("accept") /\ reply.before = 2
    /\ consecutive_failures = 0

\* C3: a /decision request whose decision is neither accept nor reject is
\* answered in the step that takes it, with 400, and that step leaves the
\* counter, the rejection history and the prediction cache as they were and
\* sends no alert
C3_InvalidDecisionRefused ==
    [][/\ \A t \in Threads : ~InvalidDecision(req'[t])
       /\ InvalidDecision(reply'.request) =>
              /\ reply'.code = 400
              /\ reply'.alert = "none"
              /\ UNCHANGED <<consecutive_failures, rejection_history,
                             recent_predictions>>]_vars

C3_Witness ==
    /\ InvalidDecision(reply.request) /\ reply.code = 400
    /\ consecutive_failures = 2 /\ Len(rejection_history) = 2
    /\ DOMAIN recent_predictions # {}

\* C4: with handlers running in parallel and only rejects recorded, once
\* every handler has returned the counter is the number of recorded rejects
\* modulo the reset at every third
C4_NoLostUpdate ==
    (Quiescent /\ only_rejects) => consecutive_failures = rejects % 3

\* C5: with handlers running in parallel and only rejects recorded, the
\* alerts sent by handle_decision never exceed one per three recorded rejects
C5_OneAlertPerBreach ==
    only_rejects => alerts <= rejects \div 3

\* C6: one request at a time, a decision for which send_alert_email was
\* called is never answered with the 500 of an exception, and the counter is
\* 0 when it is answered, whatever the delivery ended in
C6_DeliveryFailureContained ==
    AlertingDecision => (reply.code = 200 /\ consecutive_failures = 0)

C6_Witness ==
    /\ AlertingDecision /\ reply.alert = "SMTPException"
    /\ reply.code = 200 /\ consecutive_failures = 0
    /\ Len(rejection_history) = 3

\* C7: one request at a time, the reply to a decision for which
\* send_alert_email was called is the same function of the request whatever
\* the delivery ended in: 200, status success, the message of the decision,
\* consecutive_failures 0
C7_ReplyIgnoresDelivery ==
    AlertingDecision =>
        /\ reply.code = 200
        /\ reply.body.status = "success"
        /\ reply.body.message = <<"Decision", reply.request.data.decision, "recorded">>
        /\ reply.body.consecutive_failures = 0

C7_Witness ==
    /\ AlertingDecision /\ reply.alert \in {"SMTPAuthenticationError", "skipped"}
    /\ reply.code = 200 /\ reply.body.status = "success"

\* C8: a /predict request whose JSON body has no text, or a null text, is
\* answered with 400
C8_MissingTextIs400 ==
    (/\ reply.request.kind = "predict"
     /\ ("text" \notin reply.request.data.fields
            \/ reply.request.data.text.type = "null"))
        => reply.code = 400

\* C9: one request at a time, a /predict request with a string text, the
\* empty one included, is answered with 200 and positive, negative and
\* prediction_id, and that id is then a key of the prediction cache
StringPredict ==
    /\ reply.request.kind = "predict"
    /\ "text" \in reply.request.data.fields
    /\ reply.request.data.text.type = "str"

C9_PredictStoresItsId ==
    StringPredict =>
        /\ reply.code = 200
        /\ {"positive", "negative", "prediction_id"} \subseteq DOMAIN reply.body
        /\ reply.body.prediction_id \in DOMAIN recent_predictions

C9_Witness ==
    /\ StringPredict /\ reply.request.data.text.len = 0
    /\ reply.code = 200
    /\ reply.body.prediction_id \in DOMAIN recent_predictions

\* C10, as stated: every 200 reply to a /decision request with a
\* prediction_id and a decision among accept and reject has status ok
C10_StatusOk ==
    (WellFormedDecision(reply.request) /\ reply.code = 200)
        => reply.body.status = "ok"

\* C10, amended: one request at a time, such a reply has status success when
\* the prediction id is in the prediction cache, and status error with the
\* message Prediction ID not found when it is not
C10_StatusSuccessOrError ==
    (WellFormedDecision(reply.request) /\ reply.code = 200) =>
        IF reply.request.data.prediction_id \in DOMAIN recent_predictions
        THEN reply.body.status = "success"
        ELSE /\ reply.body.status = "error"
             /\ reply.body.message = "Prediction ID not found"

C10_Witness ==
    /\ WellFormedDecision(reply.request) /\ reply.code = 200
    /\ reply.request.data.prediction_id \in DOMAIN recent_predictions
    /\ reply.body.status = "success"

\* C11: one request at a time, a decision (accept or reject) whose
\* prediction id is not in the prediction cache is answered with 200 and the
\* not-found result of handle_decision, never with the 500 of an exception
C11_UnknownIdAnswered ==
    (/\ WellFormedDecision(reply.request)
     /\ reply.request.data.prediction_id \notin DOMAIN recent_predictions)
        => /\ reply.code = 200
           /\ reply.body.status = "error"
           /\ reply.body.message = "Prediction ID not found"

C11_Witness ==
    /\ WellFormedDecision(reply.request)
    /\ reply.request.data.decision = "reject"
    /\ reply.request.data.prediction_id \notin DOMAIN recent_predictions
    /\ DOMAIN recent_predictions # {}
    /\ reply.code = 200 /\ reply.body.status = "error"

\* C12: one request at a time, every /decision request that passes the
\* validation of the route mutates the monitor, whether or not its prediction
\* id is in the prediction cache: after an accept the counter is 0; after a
\* reject the counter is one more than before (0 when that reached the
\* threshold) and the rejection history ends with an entry for the request,
\* unless a delivered alert emptied it
C12_EveryDecisionMutates ==
    (WellFormedDecision(reply.request) /\ reply.code = 200) =>
        IF reply.request.data.decision = "accept"
        THEN consecutive_failures = 0
        ELSE /\ consecutive_failures =
                   (IF reply.before + 1 >= 3 THEN 0 ELSE reply.before + 1)
             /\ \/ reply.alert = "sent"
                \/ /\ Len(rejection_history) > 0
                   /\ rejection_history[Len(rejection_history)].prediction_id =
                          reply.request.data.prediction_id

\* C13: a call predict(text, true_label=L) that returns leaves the counter
\* one above its value before the call when the predicted label is not L
\* (as long as that stays below the threshold), and at 0 when it is L
C13_TrueLabelCounts ==
    reply.request.kind = "predict_call" =>
        IF reply.request.data.true_label # PredictLabel(reply.request.data.text.len)
        THEN (reply.before + 1 < 3) => consecutive_failures = reply.before + 1
        ELSE consecutive_failures = 0

\* C14: with no decision recorded (the counter untouched by handle_decision),
\* once three predict calls in a row had a true_label that was not the
\* predicted label, exactly one alert has been sent
C14_ThreeWrongCallsAlert ==
    (Quiescent /\ only_rejects /\ rejects = 0 /\ wrong_calls = 3) => alerts = 1

\* C16: while the adapter is disabled, a step that serves a log_prediction,
\* log_rejection, log_performance or log_error call returns with no
\* telemetry call made and no alert triggered, and leaves the adapter
\* (enabled, rejection_history) and the predictor as they were
C16_DisabledIsNoOp ==
    [][(~enabled /\ reply'.request.kind \in {"log_prediction", "log_rejection",
                                             "log_performance", "log_error"})
          => /\ reply'.body.telemetry = "none"
             /\ reply'.alert = "none"
             /\ UNCHANGED <<enabled, monitor_rejection_history, consecutive_failures,
                            rejection_history, recent_predictions>>]_vars

C16_Witness ==
    /\ ~enabled /\ reply.request.kind = "log_rejection"
    /\ reply.body.telemetry = "none" /\ reply.alert = "none"
    /\ monitor_rejection_history = <<>>
    /\ consecutive_failures = 2

\* the rejection timestamps of the adapter within the trailing five minutes
WindowCount ==
    Cardinality({i \in DOMAIN monitor_rejection_history :
                    now - monitor_rejection_history[i] < 300})

C17_WitnessBelow ==
    /\ reply.request.kind = "log_rejection" /\ enabled
    /\ reply.body.telemetry = "ok" /\ reply.alert = "none"
    /\ WindowCount = 2 /\ Len(monitor_rejection_history) = 3
    /\ consecutive_failures = 2

\* C15: every rejection history, the predictor's and the adapter's, holds at
\* most 100 entries
C15_HistoriesBounded ==
    /\ Len(rejection_history) <= 100
    /\ Len(monitor_rejection_history) <= 100

\* C18: one request at a time with the clock advancing between requests, a
\* decision that refers to a prediction created one hour or more before is
\* answered as not found
C18_OldPredictionNotFound ==
    (/\ WellFormedDecision(reply.request) /\ reply.code = 200
     /\ reply.request.data.prediction_id \in DOMAIN recent_predictions
     /\ now - recent_predictions[reply.request.data.prediction_id].timestamp >= 3600)
        => reply.body.status = "error"

\* C19: one request at a time, no exception raised while /predict or
\* /decision is handled leaves the route: every reply of the two routes is
\* made by the route itself, and a reply to a request that raised is the 500
\* of the route's except clause, with error and details
C19_ExceptionsBecome500 ==
    reply.request.kind \in {"predict", "decision"} =>
        /\ "escaped" \notin DOMAIN reply.body
        /\ reply.code \in {200, 400, 500}
        /\ reply.code = 500 => {"error", "details"} \subseteq DOMAIN reply.body

C19_Witness ==
    /\ reply.request.kind = "predict" /\ reply.request.data.text.type = "list"
    /\ reply.code = 500 /\ reply.body.details = "AttributeError"
    /\ DOMAIN recent_predictions # {}

\* C20: the scores are in thousandths; every result of predict that /predict
\* passes on has negative + positive = 1
C20_ScoresSumToOne ==
    (reply.request.kind = "predict" /\ reply.code = 200)
        => reply.body.negative + reply.body.positive = 1000

C20_Witness ==
    /\ reply.request.kind = "predict" /\ reply.code = 200
    /\ reply.request.data.text.len = LongText
    /\ reply.body.negative = 200 /\ reply.body.positive = 800

\* C21: one request at a time over /predict, /decision, /test-email and
\* /health, the counter is 0, 1 or 2 whenever no request is being handled,
\* and a reject that was answered after an alert found the counter at 2
C21_CounterBelowThreshold ==
    /\ Quiescent => consecutive_failures \in {0, 1, 2}
    /\ (Recorded("reject") /\ reply.alert # "none") => reply.before = 2

\* a step in which send_alert_email delivered its mail
Delivered ==
    \E t \in Threads :
        /\ pc[t] \in {"decision_alert", "test_email_send"}
        /\ IF pc[t] = "decision_alert"
           THEN pc'[t] = "decision_reset" /\ loc'[t].alert = "sent"
           ELSE reply'.thread = t /\ reply'.alert = "sent"

\* C22: one request at a time, a step that changes the predictor's rejection
\* history either appends one entry to it (a reject) or empties it, and it
\* empties it only when send_alert_email delivered its mail: an accept, a
\* reject below the threshold, and a failed or skipped delivery leave the
\* entries in place
C22_OnlyDeliveryEmpties ==
    [][rejection_history' # rejection_history =>
          IF Len(rejection_history') > Len(rejection_history)
          THEN /\ Len(rejection_history') = Len(rejection_history) + 1
               /\ SubSeq(rejection_history', 1, Len(rejection_history))
                      = rejection_history
          ELSE rejection_history' = <<>> /\ Delivered]_vars

\* an accept answered while the three entries of a failed or skipped alert
\* are still in the history
C22_Witness ==
    /\ Recorded("accept")
    /\ Len(rejection_history) >= 3
    /\ consecutive_failures = 0

====
